---- MODULE Spec2Model ----
(***************************************************************************)
(* A model of the encrypted password vault: Encryptor (PBKDF2 + AES-CBC    *)
(* with hand-written PKCS7 padding), PasswordDB (the container file) and   *)
(* PasswordManager (the session and the CRUD operations).                  *)
(*                                                                         *)
(* Bytes are modelled at the granularity of one AES block (16 bytes): the  *)
(* container file is a sequence of blocks, block 1 the salt, block 2 the   *)
(* IV, the rest the ciphertext.  Cryptography is symbolic:                 *)
(*   - os.urandom(16) returns a value never returned before;               *)
(*   - PBKDF2 is injective in (password, salt);                            *)
(*   - an AES-CBC block decrypts to its plaintext only under the key it    *)
(*     was made with and after the block it was chained to; anything else  *)
(*     decrypts to pseudo-random bytes, which never parse as JSON.         *)
(***************************************************************************)
EXTENDS Integers, Sequences, FiniteSets, TLC

VARIABLES
    exists,            \* os.path.exists(db_path)
    file,              \* the container's content, a sequence of 16-byte blocks
    rng,               \* number of os.urandom calls made so far
    current_password,  \* PasswordManager.current_password: None or Some(p)
    pc,                \* where the running save_data call stands
    pend,              \* the save_data call of the last operation, if it made one:
                       \* its arguments, encrypt's result, what its caller returns
    ret,               \* the last operation and what it returned
    pre,               \* the container and the session's password as the last
                       \* operation found them
    issued,            \* the salt and the IV of every encrypt call, in order
    saved,             \* the arguments of the save_data call that wrote the file's
                       \* present content and returned True: None, or Some
    session,           \* the web application's session: the browser's cookie as
                       \* the running process reads it
    script,            \* the scenario a test driver runs and the line it is at
    race,              \* two save_data calls that run at once on the one path
    clock,             \* time.time(), in seconds since the model's start
    importing          \* the /import handler's loop: the rows of the uploaded
                       \* file, the row it is at (0: no import runs), its counters

vars ==
    <<exists, file, rng, current_password, pc, pend, ret, pre, issued, saved, session,
      script, race, clock, importing>>

\* ------------------------------------------------------------------ bounds

\* encrypt calls in one behaviour
MaxEncrypt == 3

\* ------------------------------------------------------------------ inputs

Passwords == {"000000", "newpw"}

Names == {"Mail", "mail"}

Rec(a, p, e, ph, rm) ==
    [account |-> a, password |-> p, email |-> e, phone |-> ph, remark |-> rm]

\* the records add_password is called with
InputRecords ==
    { Rec("a@b.com", "p1", "a@b.com", "138", "x"),
      Rec("user@abc.com", "pw2", "", "", "") }

\* Python's Optional: None, or Some(x)
None == <<>>

Some(x) == <<x>>

IsNone(o) == Len(o) = 0

Val(o) == o[1]

\* the keyword arguments update_password is called with (None: not supplied)
UpdateArgs ==
    { [account |-> None, password |-> Some("new456"), email |-> None,
       phone |-> None, remark |-> None],
      [account |-> Some("b@c.org"), password |-> None, email |-> Some(""),
       phone |-> None, remark |-> Some("note")] }

\* ------------------------------------------------------------------ dict

\* A Python dict with string keys is a sequence of <<key, value>> pairs with
\* distinct keys, in insertion order.
EmptyDict == <<>>

DictKeys(d) == { d[i][1] : i \in DOMAIN d }

DictHas(d, k) == k \in DictKeys(d)

DictIndex(d, k) == CHOOSE i \in DOMAIN d : d[i][1] = k

DictGet(d, k) == d[DictIndex(d, k)][2]

\* d[k] = v
DictSet(d, k, v) ==
    IF DictHas(d, k) THEN [d EXCEPT ![DictIndex(d, k)] = <<k, v>>]
    ELSE Append(d, <<k, v>>)

\* d.popitem(): the last item removed, whatever k is
DictDelPopItem(d, k) == SubSeq(d, 1, Len(d) - 1)

\* del d[k]
DictDel(d, k) ==
    LET i == DictIndex(d, k)
    IN  SubSeq(d, 1, i - 1) \o SubSeq(d, i + 1, Len(d))

\* d1 == d2 in Python: the same keys with the same values, in any order
DictEq(d1, d2) ==
    /\ DictKeys(d1) = DictKeys(d2)
    /\ \A k \in DictKeys(d1) : DictGet(d1, k) = DictGet(d2, k)

\* ------------------------------------------------------------------ json

\* json.dumps(data): the text of a JSON object with the dict's members in order
JsonDumps(data) == [kind |-> "object", members |-> data]

\* len(json.dumps(record)): 71 bytes of braces, keys and separators, plus the values
RecordLen(r) ==
    71 + Len(r.account) + Len(r.password) + Len(r.email) + Len(r.phone) + Len(r.remark)

RECURSIVE MembersLen(_)
MembersLen(ms) ==
    IF Len(ms) = 0 THEN 0
    ELSE (Len(ms[1][1]) + 4 + RecordLen(ms[1][2]))
         + (IF Len(ms) > 1 THEN 2 ELSE 0)
         + MembersLen(Tail(ms))

\* len(json.dumps(data).encode('utf-8')) for ASCII keys and values
JsonLen(text) == 2 + MembersLen(text.members)

\* json.loads(text) of a complete JSON object text: the dict of its members
JsonLoads(text) == text.members

\* n bytes that are no JSON text, whatever number of them is cut off the end
InvalidText(n) == [kind |-> "invalid", len |-> n]

\* the JSON text "[]", which json.loads parses to the empty list
ArrayText == [kind |-> "array", len |-> 2, members |-> [list |-> <<>>]]

\* the texts json.loads parses: a JSON value of any type
JsonKinds == {"object", "array"}

\* the length of a plaintext before its padding
TextLen(text) == IF text.kind = "object" THEN JsonLen(text) ELSE text.len

\* ------------------------------------------------------------------ Encryptor

BlockSize == 16

\* the n-th value os.urandom(16) returns
Urandom16(n) == [t |-> "rnd", id |-> n]

\* a key derived from the salt alone
DeriveKeySaltOnly(password, salt) == [pw |-> "", salt |-> salt]

\* PBKDF2HMAC(SHA256, 32, salt, 100000).derive(password)
DeriveKey(password, salt) == [pw |-> password, salt |-> salt]

\* no padding for a text that already fills its last block
PaddingLengthNoFullBlock(json_length) ==
    (BlockSize - (json_length % BlockSize)) % BlockSize

\* padding_length = 16 - (json_length % 16)
PaddingLength(json_length) == BlockSize - (json_length % BlockSize)

\* a padding of zero bytes
PadZeroBytes(json_data) ==
    LET padding_length == PaddingLength(TextLen(json_data))
    IN  [text |-> json_data, pad |-> [j \in 1..padding_length |-> 0]]

\* json_data + bytes([padding_length] * padding_length)
Pad(json_data) ==
    LET padding_length == PaddingLength(TextLen(json_data))
    IN  [text |-> json_data, pad |-> [j \in 1..padding_length |-> padding_length]]

PaddedLen(padded) == TextLen(padded.text) + Len(padded.pad)

\* encryptor.update(padded_data) + encryptor.finalize() under AES-CBC: block i
\* is bound to the key, to the chain the IV starts and to plaintext block i
CbcEncrypt(key, iv, padded) ==
    [i \in 1..(PaddedLen(padded) \div BlockSize) |->
        [t |-> "ct", key |-> key, iv |-> iv, i |-> i, src |-> padded]]

\* encrypt with a hard-coded salt
EncryptFixedSalt(password, data, r) ==
    LET json_data == JsonDumps(data)
        salt == Urandom16(0)
        iv == Urandom16(r + 2)
        key == DeriveKey(password, salt)
        padded_data == Pad(json_data)
    IN  [raised |-> FALSE, salt |-> salt, iv |-> iv,
         ciphertext |-> CbcEncrypt(key, iv, padded_data)]

\* Encryptor(password).encrypt(data), os.urandom having been called r times.
\* finalize() raises ValueError when the data is not a whole number of blocks.
Encrypt(password, data, r) ==
    LET json_data == JsonDumps(data)
        salt == Urandom16(r + 1)
        iv == Urandom16(r + 2)
        key == DeriveKey(password, salt)
        padded_data == Pad(json_data)
    IN  IF PaddedLen(padded_data) % BlockSize # 0
        THEN [raised |-> TRUE, salt |-> salt, iv |-> iv, ciphertext |-> <<>>]
        ELSE [raised |-> FALSE, salt |-> salt, iv |-> iv,
              ciphertext |-> CbcEncrypt(key, iv, padded_data)]

\* whether ciphertext block c was produced right after block prev
Chained(prev, c) ==
    IF c.i = 1 THEN prev = c.iv
    ELSE prev = [c EXCEPT !.i = c.i - 1]

\* AES-CBC decryption of one block
DecBlock(key, prev, c) ==
    IF c.t = "ct" /\ c.key = key /\ Chained(prev, c)
    THEN [t |-> "pt", i |-> c.i, src |-> c.src]
    ELSE [t |-> "garbage"]

\* the byte a JSON text holds at a position: a printable character (the closing
\* brace at the text's end); every such byte is at least 32
TextByte == 125

\* JSON's insignificant whitespace, which json.loads skips after the value
JsonWhitespace == {9, 10, 13, 32}

\* what a block of code does: it returns a value, or raises an exception
Return(v) == [raised |-> FALSE, exc |-> "", val |-> v]

Raise(e) == [raised |-> TRUE, exc |-> e, val |-> None]

\* the first n bytes of a block, 0 < n < 16: the end of a file whose length is
\* no multiple of 16
Part(b, n) == [t |-> "part", of |-> b, n |-> n]

\* len() of an element of a file
BlockLen(b) == IF b.t = "part" THEN b.n ELSE BlockSize

\* len() of what f.read(16) returns for element k of the file
ReadLen(f, k) == IF Len(f) < k THEN 0 ELSE BlockLen(f[k])

\* padded_plaintext[-1], where padded_plaintext is the first have bytes of a
\* padded text
LastByte(padded, have) ==
    IF have > TextLen(padded.text) THEN padded.pad[have - TextLen(padded.text)]
    ELSE TextByte

\* len(padded_plaintext[:-padding_length]) for a padded_plaintext of have bytes
Strip(have, padding_length) ==
    IF padding_length = 0 \/ padding_length > have THEN 0
    ELSE have - padding_length

\* a stored ciphertext block c with one bit changed: its decryption is 16
\* pseudo-random bytes, the last of them the byte last
Flip(c, last) == [t |-> "flip", of |-> c, last |-> last]

\* the body of decrypt's try statement.  Garbage bytes that stay in the text
\* never parse; a garbage last block is stripped when its last byte says so.
\* The last byte is known for a block with a changed bit only: a text that
\* ends in any other garbage block is taken not to parse.
DecryptTry(password, salt, iv, ciphertext) ==
    LET key == DeriveKey(password, salt)
        n == Len(ciphertext)
        blocks == [i \in 1..n |->
                     DecBlock(key, IF i = 1 THEN iv ELSE ciphertext[i - 1],
                              ciphertext[i])]
    IN  IF n > 0 /\ BlockLen(ciphertext[n]) # BlockSize
        THEN Raise("ValueError")                 \* finalize(): not a whole block
        ELSE IF n = 0 THEN Raise("IndexError")   \* padded_plaintext[-1] of b''
        ELSE IF \E i \in 1..n :
                    /\ blocks[i].t = "garbage"
                    /\ i < n \/ n = 1 \/ ciphertext[n].t # "flip"
             THEN Raise("JSONDecodeError")       \* or UnicodeDecodeError
        ELSE LET src == blocks[1].src            \* blocks 1..n of one padded text
                 have == n * BlockSize
                 clean ==                       \* the bytes before a garbage block
                     IF blocks[n].t = "garbage" THEN have - BlockSize ELSE have
                 tlen == TextLen(src.text)
                 padding_length ==              \* padded_plaintext[-1]
                     IF blocks[n].t = "garbage" THEN ciphertext[n].last
                     ELSE LastByte(src, have)
                 keep == Strip(have, padding_length)
             IN  IF src.text.kind \notin JsonKinds THEN Raise("JSONDecodeError")
                 ELSE IF keep > clean THEN Raise("JSONDecodeError")  \* garbage stays
                 ELSE IF keep < tlen THEN Raise("JSONDecodeError")   \* a cut text
                 ELSE IF \E j \in 1..(keep - tlen) : src.pad[j] \notin JsonWhitespace
                      THEN Raise("JSONDecodeError")                  \* extra data
                 ELSE Return(JsonLoads(src.text))

\* Encryptor(password).decrypt(salt, iv, ciphertext): the dict, or None when
\* anything raises
Decrypt(password, salt, iv, ciphertext) ==
    LET o == DecryptTry(password, salt, iv, ciphertext)
    IN  IF o.raised THEN None ELSE Some(o.val)

\* ------------------------------------------------------------------ PasswordDB

\* load_data failing on a missing file
LoadDataAbsentFails(ex, f, password) ==
    IF ~ex \/ Len(f) < 2 THEN None
    ELSE Decrypt(password, f[1], f[2], SubSeq(f, 3, Len(f)))

\* load_data taking a file too short for a salt and an IV for a new vault
LoadTryShortIsEmpty(f, password, readable) ==
    IF ~readable THEN Raise("PermissionError")
    ELSE IF ReadLen(f, 1) # 16 \/ ReadLen(f, 2) # 16 THEN Return(Some(EmptyDict))
    ELSE Return(Decrypt(password, f[1], f[2], SubSeq(f, 3, Len(f))))

\* the body of load_data's try statement; readable: open() and read() succeed
LoadTry(f, password, readable) ==
    IF ~readable THEN Raise("PermissionError")   \* open(self.db_path, 'rb')
    ELSE IF ReadLen(f, 1) # 16 \/ ReadLen(f, 2) # 16 THEN Return(None)
    ELSE Return(Decrypt(password, f[1], f[2], SubSeq(f, 3, Len(f))))

\* what a load_data(password) call does on a container file (ex: it exists,
\* f: its content)
LoadDataOutcome(ex, f, password, readable) ==
    IF ~ex THEN Return(Some(EmptyDict))          \* no file: return {}
    ELSE LET o == LoadTry(f, password, readable)
         IN  IF o.raised THEN Return(None)       \* except Exception: return None
             ELSE o

\* PasswordDB.load_data(password) on a container file that can be read
LoadData(ex, f, password) == LoadDataOutcome(ex, f, password, TRUE).val

\* what an operation returned: ok is the boolean result (for load_data and
\* get_password: the result is not None), val the value returned with it
Ret(op, pw, new, name, ok, val) ==
    [op |-> op, pw |-> pw, new |-> new, name |-> name, ok |-> ok, val |-> val]

NoBlock == [t |-> "none"]

NoPend ==
    [password |-> "", data |-> EmptyDict, salt |-> NoBlock, iv |-> NoBlock,
     ciphertext |-> <<>>, ret |-> Ret("none", "", "", "", FALSE, None)]

\* an operation or a request handler is called: no save_data call is running
Enter ==
    /\ pc = "idle"
    /\ pre' = [exists |-> exists, file |-> file,
               current_password |-> current_password]
    /\ importing.at = 0
    /\ UNCHANGED <<race, clock>>

\* a request handler of the web application is called
WebCall ==
    /\ Enter
    /\ UNCHANGED <<script, importing>>

\* an operation is called from the command line or a test, no cookie is
\* involved; a test driver that runs a scenario moves on to its next line
Call ==
    /\ Enter
    /\ script' = IF script.at = 0 THEN script ELSE [script EXCEPT !.at = @ + 1]
    /\ UNCHANGED <<session, importing>>

\* no two save_data calls run at once
NoRace == <<>>

\* no test driver runs a scenario
NoScript == [at |-> 0, old |-> "", new |-> "", name |-> "", rec |-> None]

\* the cookie of a browser that has not logged in, or after session.clear()
NoSession ==
    [authenticated |-> FALSE, master_password |-> None, login_time |-> None]

\* no import runs
NoImport ==
    [rows |-> <<>>, at |-> 0, success_count |-> 0, skip_count |-> 0,
     error_count |-> 0]

\* the /import loop has counted the row it is at under counter c
CountRow(imp, c) == [imp EXCEPT !.at = @ + 1, ![c] = @ + 1]

\* an operation returns r without having opened the file for writing
Finish(r) ==
    /\ pc' = "idle"
    /\ pend' = NoPend
    /\ ret' = r
    /\ UNCHANGED <<exists, file, rng, issued, saved>>

\* save_data(password, data) up to its open(): the encryption.  r is what the
\* calling operation returns once save_data has returned True.
SaveData(password, data, r) ==
    /\ rng + 2 <= 2 * MaxEncrypt
    /\ LET e == Encrypt(password, data, rng)
       IN  /\ rng' = rng + 2
           /\ issued' = Append(issued, [salt |-> e.salt, iv |-> e.iv])
           /\ IF e.raised
              THEN /\ pc' = "idle"
                   /\ pend' = NoPend
                   /\ ret' = [r EXCEPT !.ok = FALSE]
              ELSE /\ pc' = "open"
                   /\ pend' = [password |-> password, data |-> data, salt |-> e.salt,
                               iv |-> e.iv, ciphertext |-> e.ciphertext, ret |-> r]
                   /\ ret' = [r EXCEPT !.op = "running", !.ok = FALSE]
    /\ UNCHANGED <<exists, file, saved>>

\* open(self.db_path, 'wb'): the file is created, or truncated to nothing
SaveOpen ==
    /\ pc = "open"
    /\ exists' = TRUE
    /\ file' = <<>>
    /\ pc' = "w_salt"
    /\ saved' = None
    /\ UNCHANGED <<rng, current_password, pend, ret, pre, issued, session, script,
                   race, clock, importing>>

\* f.write(salt)
SaveWriteSalt ==
    /\ pc = "w_salt"
    /\ file' = Append(file, pend.salt)
    /\ pc' = "w_iv"
    /\ UNCHANGED <<exists, rng, current_password, pend, ret, pre, issued, saved,
                   session, script, race, clock, importing>>

\* a save_data that leaves the IV out of the file
SaveWriteIvOmitted ==
    /\ pc = "w_iv"
    /\ pc' = "w_ct"
    /\ UNCHANGED <<exists, file, rng, current_password, pend, ret, pre, issued, saved,
                   session, script, race, clock, importing>>

\* f.write(iv)
SaveWriteIv ==
    /\ pc = "w_iv"
    /\ file' = Append(file, pend.iv)
    /\ pc' = "w_ct"
    /\ UNCHANGED <<exists, rng, current_password, pend, ret, pre, issued, saved,
                   session, script, race, clock, importing>>

\* a caller of save_data that never sets current_password after a rotation
AfterSaveKeepsPassword(ok, f) ==
    LET r == pend.ret
        logged == r.op = "login" /\ ~IsNone(LoadData(TRUE, f, r.pw))
    IN  /\ ret' = [r EXCEPT !.ok = IF r.op = "login" THEN logged ELSE ok]
        /\ current_password' = IF logged THEN Some(r.pw) ELSE current_password
        /\ session' =
             IF r.name = "/change_password" /\ ok
             THEN [session EXCEPT !.master_password = Some(r.new)]
             ELSE IF logged
             THEN [session EXCEPT !.authenticated = TRUE,
                                  !.login_time = Some(clock)]
             ELSE session
        /\ importing' =
             IF r.op = "import_row"
             THEN CountRow(importing, IF ok THEN "success_count" ELSE "error_count")
             ELSE importing

\* what the caller of the running save_data call does once save_data has
\* returned ok, the file being f: change_master_password sets current_password
\* when ok, the /change_password handler then stores the new password in the
\* cookie, the /login handler goes on to authenticate; every other caller
\* returns ok
AfterSave(ok, f) ==
    LET r == pend.ret
        logged == r.op = "login" /\ ~IsNone(LoadData(TRUE, f, r.pw))
    IN  /\ ret' = [r EXCEPT !.ok = IF r.op = "login" THEN logged ELSE ok]
        /\ current_password' =
             IF r.op = "change_master_password" /\ ok THEN Some(r.new)
             ELSE IF logged THEN Some(r.pw)
             ELSE current_password
        /\ session' =
             IF r.name = "/change_password" /\ ok
             THEN [session EXCEPT !.master_password = Some(r.new)]
             ELSE IF logged
             THEN [session EXCEPT !.authenticated = TRUE,
                                  !.login_time = Some(clock)]
             ELSE session
        /\ importing' =
             IF r.op = "import_row"
             THEN CountRow(importing, IF ok THEN "success_count" ELSE "error_count")
             ELSE importing

\* f.write(ciphertext), the file is closed and save_data returns True
SaveWriteCiphertext ==
    /\ pc = "w_ct"
    /\ file' = file \o pend.ciphertext
    /\ pc' = "idle"
    /\ saved' = Some([password |-> pend.password, data |-> pend.data])
    /\ AfterSave(TRUE, file \o pend.ciphertext)
    /\ UNCHANGED <<exists, rng, pend, pre, issued, script, race, clock>>

\* save_data returning True after a failed write
SaveIOErrorReturnsTrue ==
    /\ pc \in {"open", "w_salt", "w_iv", "w_ct"}
    /\ pc' = "idle"
    /\ ret' = pend.ret
    /\ UNCHANGED <<exists, file, rng, current_password, pend, pre, issued, saved,
                   session, script, race, clock, importing>>

\* open() or a write raises (permission denied, disk full): save_data prints
\* the error and returns False, and so does its caller
SaveIOError ==
    /\ pc \in {"open", "w_salt", "w_iv", "w_ct"}
    /\ pc' = "idle"
    /\ AfterSave(FALSE, file)
    /\ UNCHANGED <<exists, file, rng, pend, pre, issued, saved, script, race,
                   clock>>

\* the process dies (killed, power loss); the file stays as it is, the next
\* process starts with a new PasswordManager; the web application draws a new
\* app.secret_key, so the cookie the old process signed no longer verifies and
\* the session it carries reads as empty.  ret.name keeps where the save_data
\* call stood ("idle": none was running).
Crash ==
    /\ pc' = "idle"
    /\ current_password' = None
    /\ ret' = Ret("crash", "", "", pc, FALSE, None)
    /\ session' = NoSession
    /\ importing' = NoImport
    /\ UNCHANGED <<exists, file, rng, pend, pre, issued, saved, script, race, clock>>

\* db.load_data(password)
DbLoadData(password) ==
    /\ Call
    /\ LET data == LoadData(exists, file, password)
       IN  Finish(Ret("load_data", password, "", "", ~IsNone(data), data))
    /\ UNCHANGED current_password

\* db.save_data(password, data)
DbSaveData(password, data) ==
    /\ Call
    /\ SaveData(password, data, Ret("save_data", password, "", "", TRUE, None))
    /\ UNCHANGED current_password

\* initialize_database saving whether or not the file exists
InitializeDatabaseAlways(password) ==
    /\ Call
    /\ SaveData(password, EmptyDict,
                Ret("initialize_database", password, "", "", TRUE, None))
    /\ UNCHANGED current_password

\* initialize_database with its test of the file's existence inverted
InitializeDatabaseInverted(password) ==
    /\ Call
    /\ LET r == Ret("initialize_database", password, "", "", TRUE, None)
       IN  IF ~exists THEN Finish(r)
           ELSE SaveData(password, EmptyDict, r)
    /\ UNCHANGED current_password

\* db.initialize_database(password)
InitializeDatabase(password) ==
    /\ Call
    /\ LET r == Ret("initialize_database", password, "", "", TRUE, None)
       IN  IF exists THEN Finish(r)
           ELSE SaveData(password, EmptyDict, r)
    /\ UNCHANGED current_password

\* change_password saving under the old password
ChangePasswordKeepsOld(old_password, new_password, r) ==
    LET data == LoadData(exists, file, old_password)
    IN  IF IsNone(data) THEN Finish([r EXCEPT !.ok = FALSE])
        ELSE SaveData(old_password, Val(data), r)

\* change_password without its test of what load_data returned
ChangePasswordUnchecked(old_password, new_password, r) ==
    LET data == LoadData(exists, file, old_password)
    IN  SaveData(new_password, IF IsNone(data) THEN EmptyDict ELSE Val(data), r)

\* db.change_password(old_password, new_password), r what the caller returns
\* on success
ChangePassword(old_password, new_password, r) ==
    LET data == LoadData(exists, file, old_password)
    IN  IF IsNone(data) THEN Finish([r EXCEPT !.ok = FALSE])
        ELSE SaveData(new_password, Val(data), r)

DbChangePassword(old_password, new_password) ==
    /\ Call
    /\ ChangePassword(old_password, new_password,
                      Ret("change_password", old_password, new_password, "", TRUE, None))
    /\ UNCHANGED current_password

\* ------------------------------------------------------------------ PasswordManager

\* an is_authenticated that does not load the container again
IsAuthenticatedPasswordSet == ~IsNone(current_password)

\* is_authenticated()
IsAuthenticated ==
    IF IsNone(current_password) THEN FALSE
    ELSE ~IsNone(LoadData(exists, file, Val(current_password)))

\* _get_data()
GetData ==
    IF ~IsAuthenticated THEN None
    ELSE LoadData(exists, file, Val(current_password))

\* _save_data keeping the data in memory for a later flush
ManagerSaveDataDeferred(data, r) ==
    IF ~IsAuthenticated THEN Finish([r EXCEPT !.ok = FALSE])
    ELSE Finish(r)

\* _save_data encrypting under the default master password
ManagerSaveDataDefaultPassword(data, r) ==
    IF ~IsAuthenticated THEN Finish([r EXCEPT !.ok = FALSE])
    ELSE SaveData("000000", data, r)

\* _save_data(data), r what the caller returns on success
ManagerSaveData(data, r) ==
    IF ~IsAuthenticated THEN Finish([r EXCEPT !.ok = FALSE])
    ELSE SaveData(Val(current_password), data, r)

\* an authenticate that logs the session out when the password is wrong
AuthenticateLogsOut(password) ==
    /\ Call
    /\ LET data == LoadData(exists, file, password)
       IN  IF ~IsNone(data)
           THEN /\ current_password' = Some(password)
                /\ Finish(Ret("authenticate", password, "", "", TRUE, None))
           ELSE /\ current_password' = None
                /\ Finish(Ret("authenticate", password, "", "", FALSE, None))

\* an authenticate that creates an empty container file when there is none
AuthenticateCreates(password) ==
    /\ Call
    /\ pc' = "idle"
    /\ pend' = NoPend
    /\ exists' = TRUE
    /\ file' = IF exists THEN file ELSE <<>>
    /\ LET ok == ~exists \/ ~IsNone(LoadData(exists, file, password))
       IN  /\ current_password' = IF ok THEN Some(password) ELSE current_password
           /\ ret' = Ret("authenticate", password, "", "", ok, None)
    /\ UNCHANGED <<rng, issued, saved>>

\* authenticate(password)
Authenticate(password) ==
    /\ Call
    /\ LET data == LoadData(exists, file, password)
       IN  IF ~IsNone(data)
           THEN /\ current_password' = Some(password)
                /\ Finish(Ret("authenticate", password, "", "", TRUE, None))
           ELSE /\ current_password' = current_password
                /\ Finish(Ret("authenticate", password, "", "", FALSE, None))

\* add_password without its test for an existing product
AddPasswordOverwrites(product_name, record) ==
    /\ Call
    /\ LET data == GetData
           r == Ret("add_password", "", "", product_name, TRUE, Some(record))
       IN  IF IsNone(data) THEN Finish([r EXCEPT !.ok = FALSE])
           ELSE ManagerSaveData(DictSet(Val(data), product_name, record), r)
    /\ UNCHANGED current_password

\* add_password storing no remark
AddPasswordDropsRemark(product_name, record) ==
    /\ Call
    /\ LET data == GetData
           r == Ret("add_password", "", "", product_name, TRUE, Some(record))
       IN  IF IsNone(data) THEN Finish([r EXCEPT !.ok = FALSE])
           ELSE IF DictHas(Val(data), product_name) THEN Finish([r EXCEPT !.ok = FALSE])
           ELSE ManagerSaveData(
                    DictSet(Val(data), product_name, [record EXCEPT !.remark = ""]), r)
    /\ UNCHANGED current_password

\* add_password(product_name, account, password, email, phone, remark)
AddPassword(product_name, record) ==
    /\ Call
    /\ LET data == GetData
           r == Ret("add_password", "", "", product_name, TRUE, Some(record))
       IN  IF IsNone(data) THEN Finish([r EXCEPT !.ok = FALSE])
           ELSE IF DictHas(Val(data), product_name) THEN Finish([r EXCEPT !.ok = FALSE])
           ELSE ManagerSaveData(DictSet(Val(data), product_name, record), r)
    /\ UNCHANGED current_password

\* get_password(product_name)
GetPassword(product_name) ==
    /\ Call
    /\ LET data == GetData
           found == ~IsNone(data) /\ DictHas(Val(data), product_name)
       IN  Finish(Ret("get_password", "", "", product_name, found,
                      IF found THEN Some(DictGet(Val(data), product_name)) ELSE None))
    /\ UNCHANGED current_password

\* update_password assigning every field, supplied or not
MergeClearsOmitted(record, args) ==
    [f \in DOMAIN record |-> IF IsNone(args[f]) THEN "" ELSE Val(args[f])]

\* the record update_password leaves: each supplied field replaced
Merge(record, args) ==
    [f \in DOMAIN record |-> IF IsNone(args[f]) THEN record[f] ELSE Val(args[f])]

\* update_password(product_name, account, password, email, phone, remark)
UpdatePassword(product_name, args) ==
    /\ Call
    /\ LET data == GetData
           r == Ret("update_password", "", "", product_name, TRUE, Some(args))
       IN  IF IsNone(data) THEN Finish([r EXCEPT !.ok = FALSE])
           ELSE IF ~DictHas(Val(data), product_name) THEN Finish([r EXCEPT !.ok = FALSE])
           ELSE ManagerSaveData(
                    DictSet(Val(data), product_name,
                            Merge(DictGet(Val(data), product_name), args)), r)
    /\ UNCHANGED current_password

\* delete_password saving whether or not the product exists
DeletePasswordAlwaysSaves(product_name) ==
    /\ Call
    /\ LET data == GetData
           r == Ret("delete_password", "", "", product_name, TRUE, None)
       IN  IF IsNone(data) THEN Finish([r EXCEPT !.ok = FALSE])
           ELSE IF DictHas(Val(data), product_name)
                THEN ManagerSaveData(DictDel(Val(data), product_name), r)
           ELSE ManagerSaveData(Val(data), r)
    /\ UNCHANGED current_password

\* delete_password(product_name)
DeletePassword(product_name) ==
    /\ Call
    /\ LET data == GetData
           r == Ret("delete_password", "", "", product_name, TRUE, None)
       IN  IF IsNone(data) THEN Finish([r EXCEPT !.ok = FALSE])
           ELSE IF DictHas(Val(data), product_name)
                THEN ManagerSaveData(DictDel(Val(data), product_name), r)
           ELSE Finish([r EXCEPT !.ok = FALSE])
    /\ UNCHANGED current_password

\* the product names in ascending order of their code points
NameOrder == <<"Mail", "mail">>

\* list(data.keys()): the keys in insertion order
SortedKeysUnsorted(data) == [i \in DOMAIN data |-> data[i][1]]

\* sorted(list(data.keys()))
SortedKeys(data) == SelectSeq(NameOrder, LAMBDA k : DictHas(data, k))

\* list_products()
ListProducts ==
    /\ Call
    /\ LET data == GetData
       IN  Finish(Ret("list_products", "", "", "", ~IsNone(data),
                      IF IsNone(data) THEN <<>> ELSE SortedKeys(Val(data))))
    /\ UNCHANGED current_password

\* is_authenticated() called for its result
IsAuthenticatedCall ==
    /\ Call
    /\ Finish(Ret("is_authenticated", "", "", "", IsAuthenticated, None))
    /\ UNCHANGED current_password

\* get_all_products()
GetAllProducts ==
    /\ Call
    /\ LET data == GetData
       IN  Finish(Ret("get_all_products", "", "", "", ~IsNone(data), data))
    /\ UNCHANGED current_password

\* a change_master_password that does not ask is_authenticated()
ChangeMasterPasswordUnchecked(new_password) ==
    /\ Call
    /\ LET old == IF IsNone(current_password) THEN "" ELSE Val(current_password)
           r == Ret("change_master_password", old, new_password, "", TRUE, None)
       IN  ChangePassword(old, new_password, r)
    /\ UNCHANGED current_password

\* change_master_password(new_password); current_password is set when
\* change_password has returned True
ChangeMasterPassword(new_password) ==
    /\ Call
    /\ LET r == Ret("change_master_password",
                    IF IsNone(current_password) THEN "" ELSE Val(current_password),
                    new_password, "", TRUE, None)
       IN  IF ~IsAuthenticated THEN Finish([r EXCEPT !.ok = FALSE])
           ELSE ChangePassword(Val(current_password), new_password, r)
    /\ UNCHANGED current_password

\* ------------------------------------------------------------------ CSVExporter

\* CSVExporter(pm).export_to_csv(csv_path); writable: the CSV file can be
\* written.  The value returned with True is the rows written, one for each
\* product with its five fields.
ExportToCsv(writable) ==
    /\ Call
    /\ LET r == Ret("export_to_csv", "", "", "", FALSE, None)
           all_data == GetData               \* get_all_products()
       IN  IF ~IsAuthenticated THEN Finish(r)
           ELSE IF IsNone(all_data) THEN Finish(r)
           ELSE IF ~writable THEN Finish(r)
           ELSE Finish([r EXCEPT !.ok = TRUE, !.val = all_data])
    /\ UNCHANGED current_password

\* ------------------------------------------------------------------ specification

\* the dicts save_data is called with directly
SaveInputs ==
    { EmptyDict,
      << <<"Mail", Rec("a@b.com", "p1", "", "", "")>>,
         <<"mail", Rec("user@abc.com", "pw2", "a@b.com", "138", "x")>> >> }

\* ---------------------------------------------------------------------------
\* web_app: the request handlers over the one PasswordManager pm of the
\* process and the session cookie of one browser
\* ---------------------------------------------------------------------------

DEFAULT_MASTER_PASSWORD == "000000"

\* what a browser can type into a password field
WebPasswords == Passwords \cup {"wrong"}

SESSION_TIMEOUT == 60

\* login_required with "not more than" read as "less than": a session is
\* timed out when exactly SESSION_TIMEOUT seconds have passed
LoginRequiredInclusive ==
    IF ~session.authenticated THEN "redirect"
    ELSE IF IsNone(session.login_time) THEN "timeout"
    ELSE IF clock - Val(session.login_time) >= SESSION_TIMEOUT THEN "timeout"
    ELSE "run"

\* login_required: what the decorator does with a request.  "redirect": no
\* session['authenticated'], redirect to /login; "timeout": more than
\* SESSION_TIMEOUT seconds since session['login_time'] (session.get's default 0
\* is the year 1970), session.clear() and redirect to /login; "run": the
\* handler is called
LoginRequired ==
    IF ~session.authenticated THEN "redirect"
    ELSE IF IsNone(session.login_time) THEN "timeout"
    ELSE IF clock - Val(session.login_time) > SESSION_TIMEOUT THEN "timeout"
    ELSE "run"

\* the cookie login_required leaves: cleared on a timeout,
\* session['login_time'] = time.time() before the handler is called
LoginRequiredSession ==
    IF LoginRequired = "timeout" THEN NoSession
    ELSE IF LoginRequired = "run" THEN [session EXCEPT !.login_time = Some(clock)]
    ELSE session

\* GET /login: initialize_database(DEFAULT_MASTER_PASSWORD), then the form
WebLoginGet ==
    /\ WebCall
    /\ LET r == Ret("login_page", "", "", "/login", TRUE, None)
       IN  IF exists THEN Finish(r)
           ELSE SaveData(DEFAULT_MASTER_PASSWORD, EmptyDict, r)
    /\ UNCHANGED <<current_password, session>>

\* POST /login: initialize_database(DEFAULT_MASTER_PASSWORD), then
\* pm.authenticate(password) and, when it succeeds, session['authenticated'];
\* after a save_data call the handler goes on in AfterSave
WebLoginPost(password) ==
    /\ WebCall
    /\ LET r == Ret("login", password, "", "/login", TRUE, None)
           logged == ~IsNone(LoadData(exists, file, password))
       IN  IF exists
           THEN /\ Finish([r EXCEPT !.ok = logged])
                /\ current_password' =
                     IF logged THEN Some(password) ELSE current_password
                /\ session' =
                     IF logged
                     THEN [session EXCEPT !.authenticated = TRUE,
                                          !.login_time = Some(clock)]
                     ELSE session
           ELSE /\ SaveData(DEFAULT_MASTER_PASSWORD, EmptyDict, r)
                /\ UNCHANGED <<current_password, session>>

\* GET /logout: session.clear(); pm keeps its current_password
WebLogout ==
    /\ WebCall
    /\ session' = NoSession
    /\ Finish(Ret("logout", "", "", "/logout", TRUE, None))
    /\ UNCHANGED current_password

\* GET /dashboard behind login_required: pm.list_products()
WebDashboard ==
    /\ WebCall
    /\ LET r == Ret("dashboard", "", "", "/dashboard", TRUE, None)
           data == GetData
       IN  IF LoginRequired # "run"
           THEN Finish([r EXCEPT !.op = LoginRequired, !.ok = FALSE])
           ELSE Finish([r EXCEPT !.val = IF IsNone(data) THEN <<>>
                                         ELSE SortedKeys(Val(data))])
    /\ session' = LoginRequiredSession
    /\ UNCHANGED current_password

\* POST /change_password behind login_required: a browser without
\* session['authenticated'] or with a timed out session is redirected;
\* pm.authenticate(current_password)
\* sets pm.current_password when it succeeds; the new password must equal its
\* confirmation; then pm.change_master_password(new_password), whose
\* is_authenticated() loads the same file under the same password again, and
\* on success session['master_password'] = new_password (in AfterSave)
WebChangePassword(current, new_password, confirm_password) ==
    /\ WebCall
    /\ LET r == Ret("change_master_password", current, new_password,
                    "/change_password", TRUE, None)
       IN  IF LoginRequired # "run"
           THEN /\ Finish([r EXCEPT !.op = LoginRequired, !.ok = FALSE])
                /\ UNCHANGED current_password
           ELSE IF IsNone(LoadData(exists, file, current))
           THEN /\ Finish([r EXCEPT !.op = "authenticate", !.ok = FALSE])
                /\ UNCHANGED current_password
           ELSE IF new_password # confirm_password
           THEN /\ Finish([r EXCEPT !.op = "authenticate", !.ok = FALSE])
                /\ current_password' = Some(current)
           ELSE /\ ChangePassword(current, new_password, r)
                /\ current_password' = Some(current)
    /\ session' = LoginRequiredSession

\* PasswordManager(db_path) constructed, no container file yet
Init ==
    /\ exists = FALSE
    /\ file = <<>>
    /\ rng = 0
    /\ current_password = None
    /\ pc = "idle"
    /\ pend = NoPend
    /\ ret = Ret("none", "", "", "", FALSE, None)
    /\ pre = [exists |-> FALSE, file |-> <<>>, current_password |-> None]
    /\ issued = <<>>
    /\ saved = None
    /\ session = NoSession
    /\ clock = 0
    /\ importing = NoImport
    /\ script = NoScript
    /\ race = NoRace

Next ==
    \/ \E p \in Passwords : DbLoadData(p)
    \/ \E p \in Passwords, d \in SaveInputs : DbSaveData(p, d)
    \/ \E p \in Passwords : InitializeDatabase(p)
    \/ \E p \in Passwords, q \in Passwords : DbChangePassword(p, q)
    \/ \E p \in Passwords : Authenticate(p)
    \/ \E k \in Names, r \in InputRecords : AddPassword(k, r)
    \/ \E k \in Names : GetPassword(k)
    \/ \E k \in Names, a \in UpdateArgs : UpdatePassword(k, a)
    \/ \E k \in Names : DeletePassword(k)
    \/ ListProducts
    \/ \E p \in Passwords : ChangeMasterPassword(p)
    \/ \E w \in BOOLEAN : ExportToCsv(w)
    \/ SaveOpen
    \/ SaveWriteSalt
    \/ SaveWriteIv
    \/ SaveWriteCiphertext
    \/ SaveIOError
    \/ Crash

Spec == Init /\ [][Next]_vars

\* the web application alone: a browser logs in, rotates the master password,
\* logs out; the server process may die and be started again
NextWeb ==
    \/ WebLoginGet
    \/ \E p \in WebPasswords : WebLoginPost(p)
    \/ WebLogout
    \/ \E p \in WebPasswords, q \in Passwords, c \in Passwords :
           WebChangePassword(p, q, c)
    \/ SaveOpen
    \/ SaveWriteSalt
    \/ SaveWriteIv
    \/ SaveWriteCiphertext
    \/ SaveIOError
    \/ Crash

SpecWeb == Init /\ [][NextWeb]_vars

\* ---------------------------------------------------------------------------
\* the session gate of the web application: one browser that logs in, asks
\* for the dashboard and logs out while time passes
\* ---------------------------------------------------------------------------

\* the latest time the clock is followed to
MaxClock == 92

\* the seconds that pass between two steps
TickSteps == {30, 31}

\* time passes
Tick ==
    /\ \E d \in TickSteps :
           /\ clock + d <= MaxClock
           /\ clock' = clock + d
    /\ UNCHANGED <<exists, file, rng, current_password, pc, pend, ret, pre, issued,
                   saved, session, script, race, importing>>

NextGate ==
    \/ WebLoginGet
    \/ \E p \in WebPasswords : WebLoginPost(p)
    \/ WebLogout
    \/ WebDashboard
    \/ Tick
    \/ SaveOpen
    \/ SaveWriteSalt
    \/ SaveWriteIv
    \/ SaveWriteCiphertext
    \/ Crash

SpecGate == Init /\ [][NextGate]_vars

\* ---------------------------------------------------------------------------
\* POST /import: the rows of an uploaded CSV file are added one by one
\* ---------------------------------------------------------------------------

\* the rows a file has at most
MaxRows == 2

\* str.strip() on the texts of the model
StripText(s) ==
    CASE s = " Mail " -> "Mail"
      [] s = " " -> ""
      [] OTHER -> s

\* a row as csv.DictReader yields it
CsvRow(product_name, rec) ==
    [product_name |-> product_name, account |-> rec.account,
     password |-> rec.password, email |-> rec.email, phone |-> rec.phone,
     remark |-> rec.remark]

\* the rows of the uploaded files: two rows for the product "Mail" with
\* different records, one for "mail", one whose product name is blank, one
\* without a password
CsvRows ==
    { CsvRow("Mail", Rec("a@b.com", "p1", "", "", "")),
      CsvRow(" Mail ", Rec("user@abc.com", "pw2", "a@b.com", "138", "x")),
      CsvRow("mail", Rec("user@abc.com", "pw2", "a@b.com", "138", "x")),
      CsvRow(" ", Rec("a@b.com", "p1", "", "", "")),
      CsvRow("mail", Rec("a@b.com", "", "", "", "")) }

\* what the browser uploads: None is a request without a file, or with one
\* whose name does not end in .csv; Some(rows) a CSV file
Uploads ==
    {None} \cup { Some(rows) : rows \in UNION { [1..n -> CsvRows] : n \in 0..MaxRows } }

\* the record add_password is called with for a row
RowRecord(row) ==
    Rec(StripText(row.account), row.password, StripText(row.email),
        StripText(row.phone), StripText(row.remark))

\* POST /import behind login_required, up to the loop over the rows
WebImportPost(upload) ==
    /\ Enter
    /\ LET r == Ret("import", "", "", "/import", TRUE, None)
       IN  IF LoginRequired # "run"
           THEN /\ Finish([r EXCEPT !.op = LoginRequired, !.ok = FALSE])
                /\ UNCHANGED importing
           ELSE IF IsNone(upload)
           THEN /\ Finish([r EXCEPT !.ok = FALSE])
                /\ UNCHANGED importing
           ELSE /\ Finish([r EXCEPT !.op = "import_start"])
                /\ importing' = [NoImport EXCEPT !.rows = Val(upload), !.at = 1]
    /\ session' = LoginRequiredSession
    /\ UNCHANGED <<current_password, script>>

\* one pass of the loop with the test pm.get_password(product_name) left out
\* and the record stored whether the product exists or not
ImportRowOverwrites ==
    /\ pc = "idle"
    /\ importing.at >= 1
    /\ importing.at <= Len(importing.rows)
    /\ pre' = [exists |-> exists, file |-> file,
               current_password |-> current_password]
    /\ LET row == importing.rows[importing.at]
           product_name == StripText(row.product_name)
           r == Ret("import_row", "", "", product_name, TRUE, Some(RowRecord(row)))
           data == GetData
       IN  IF product_name = "" \/ StripText(row.account) = "" \/ row.password = ""
           THEN /\ Finish([r EXCEPT !.ok = FALSE, !.new = "required"])
                /\ importing' = CountRow(importing, "error_count")
           ELSE IF IsNone(data)
           THEN /\ Finish([r EXCEPT !.ok = FALSE])
                /\ importing' = CountRow(importing, "error_count")
           ELSE /\ ManagerSaveData(DictSet(Val(data), product_name, RowRecord(row)), r)
                /\ UNCHANGED importing
    /\ UNCHANGED <<current_password, session, script, race, clock>>

\* one pass of the loop: the fields of the row, stripped; a row without
\* product name, account or password is an error; a product that
\* pm.get_password finds (a record is a non-empty dict, so it is true) is
\* skipped; otherwise pm.add_password, counted in AfterSave when it reaches
\* save_data
ImportRow ==
    /\ pc = "idle"
    /\ importing.at >= 1
    /\ importing.at <= Len(importing.rows)
    /\ pre' = [exists |-> exists, file |-> file,
               current_password |-> current_password]
    /\ LET row == importing.rows[importing.at]
           product_name == StripText(row.product_name)
           r == Ret("import_row", "", "", product_name, TRUE, Some(RowRecord(row)))
           data == GetData
       IN  IF product_name = "" \/ StripText(row.account) = "" \/ row.password = ""
           THEN /\ Finish([r EXCEPT !.ok = FALSE, !.new = "required"])
                /\ importing' = CountRow(importing, "error_count")
           ELSE IF ~IsNone(data) /\ DictHas(Val(data), product_name)
           THEN /\ Finish([r EXCEPT !.ok = FALSE, !.new = "exists"])
                /\ importing' = CountRow(importing, "skip_count")
           ELSE IF IsNone(data)
           THEN /\ Finish([r EXCEPT !.ok = FALSE])
                /\ importing' = CountRow(importing, "error_count")
           ELSE /\ ManagerSaveData(DictSet(Val(data), product_name, RowRecord(row)), r)
                /\ UNCHANGED importing
    /\ UNCHANGED <<current_password, session, script, race, clock>>

\* after the last row: the counts are flashed, redirect to the dashboard
ImportDone ==
    /\ pc = "idle"
    /\ importing.at = Len(importing.rows) + 1
    /\ Finish(Ret("import", "", "", "/import", TRUE,
                  Some([importing EXCEPT !.rows = <<>>, !.at = Len(importing.rows)])))
    /\ importing' = NoImport
    /\ UNCHANGED <<current_password, pre, session, script, race, clock>>

NextImport ==
    \/ WebLoginGet
    \/ \E p \in WebPasswords : WebLoginPost(p)
    \/ \E u \in Uploads : WebImportPost(u)
    \/ ImportRow
    \/ ImportDone
    \/ SaveOpen
    \/ SaveWriteSalt
    \/ SaveWriteIv
    \/ SaveWriteCiphertext
    \/ SaveIOError

SpecImport == Init /\ [][NextImport]_vars

\* ---------------------------------------------------------------------------
\* the end-to-end scenario: a test driver over one PasswordManager, as
\* test_password_manager and main drive it, one call per line, no I/O error
\* ---------------------------------------------------------------------------

\* the scenarios: the first master password and the one it is rotated to, the
\* product added and its record
Scripts ==
    { [at |-> 1, old |-> o, new |-> n, name |-> k, rec |-> Some(r)] :
        o \in Passwords, n \in Passwords, k \in Names, r \in InputRecords }

InitScenario ==
    /\ exists = FALSE
    /\ file = <<>>
    /\ rng = 0
    /\ current_password = None
    /\ pc = "idle"
    /\ pend = NoPend
    /\ ret = Ret("none", "", "", "", FALSE, None)
    /\ pre = [exists |-> FALSE, file |-> <<>>, current_password |-> None]
    /\ issued = <<>>
    /\ saved = None
    /\ session = NoSession
    /\ clock = 0
    /\ importing = NoImport
    /\ script \in { c \in Scripts : c.old # c.new }
    /\ race = NoRace

\* line 1: pm.db.initialize_database(old)
ScriptInitialize == script.at = 1 /\ InitializeDatabase(script.old)

\* line 2: pm.authenticate(old)
ScriptAuthenticate == script.at = 2 /\ Authenticate(script.old)

\* line 3: pm.add_password(name, ...)
ScriptAdd == script.at = 3 /\ AddPassword(script.name, Val(script.rec))

\* line 4: pm.db.load_data(old)
ScriptLoad == script.at = 4 /\ DbLoadData(script.old)

\* line 5: pm.authenticate("wrong")
ScriptAuthenticateWrong == script.at = 5 /\ Authenticate("wrong")

\* line 6: pm.change_master_password(new)
ScriptRotate == script.at = 6 /\ ChangeMasterPassword(script.new)

\* line 7: pm.authenticate(old)
ScriptAuthenticateOld == script.at = 7 /\ Authenticate(script.old)

\* line 8: pm.authenticate(new)
ScriptAuthenticateNew == script.at = 8 /\ Authenticate(script.new)

\* line 9: pm.get_password(name)
ScriptGet == script.at = 9 /\ GetPassword(script.name)

NextScenario ==
    \/ ScriptInitialize
    \/ ScriptAuthenticate
    \/ ScriptAdd
    \/ ScriptLoad
    \/ ScriptAuthenticateWrong
    \/ ScriptRotate
    \/ ScriptAuthenticateOld
    \/ ScriptAuthenticateNew
    \/ ScriptGet
    \/ SaveOpen
    \/ SaveWriteSalt
    \/ SaveWriteIv
    \/ SaveWriteCiphertext

SpecScenario == InitScenario /\ [][NextScenario]_vars

\* ---------------------------------------------------------------------------
\* two sessions on one container: session A is the PasswordManager of the
\* model; session B, in another process, rotates the master password, which
\* is db.change_password(old, new) on the container A uses
\* ---------------------------------------------------------------------------

\* the calls session A makes after the rotation
MaxLater == 2

\* line 4: session B's change_master_password(new), B holding old
StaleRotate == script.at = 4 /\ DbChangePassword(script.old, script.new)

\* lines 5 and later: session A, still holding old, calls an operation
StaleLine == script.at > 4 /\ script.at <= 4 + MaxLater

NextStale ==
    \/ ScriptInitialize
    \/ ScriptAuthenticate
    \/ ScriptAdd
    \/ StaleRotate
    \/ StaleLine /\ Authenticate(script.old)
    \/ StaleLine /\ \E k \in Names, r \in InputRecords : AddPassword(k, r)
    \/ StaleLine /\ \E k \in Names : GetPassword(k)
    \/ StaleLine /\ \E k \in Names, a \in UpdateArgs : UpdatePassword(k, a)
    \/ StaleLine /\ \E k \in Names : DeletePassword(k)
    \/ StaleLine /\ ListProducts
    \/ StaleLine /\ \E p \in Passwords : ChangeMasterPassword(p)
    \/ StaleLine /\ \E w \in BOOLEAN : ExportToCsv(w)
    \/ SaveOpen
    \/ SaveWriteSalt
    \/ SaveWriteIv
    \/ SaveWriteCiphertext

SpecStale == InitScenario /\ [][NextStale]_vars

\* ---------------------------------------------------------------------------
\* first run without initialize_database: python main.py add ... (quick_add)
\* constructs a PasswordManager, authenticates with the password typed and
\* adds a record; each run is a new process (Crash at "idle" is the process
\* ending)
\* ---------------------------------------------------------------------------

NextFirstRun ==
    \/ \E p \in WebPasswords : Authenticate(p)
    \/ \E k \in Names, r \in InputRecords : AddPassword(k, r)
    \/ \E k \in Names : GetPassword(k)
    \/ \E k \in Names, a \in UpdateArgs : UpdatePassword(k, a)
    \/ \E k \in Names : DeletePassword(k)
    \/ SaveOpen
    \/ SaveWriteSalt
    \/ SaveWriteIv
    \/ SaveWriteCiphertext
    \/ SaveIOError
    \/ Crash

SpecFirstRun == Init /\ [][NextFirstRun]_vars

\* ---------------------------------------------------------------------------
\* the manager with its read-only operations, over containers that are
\* absent, whole, or torn by a failed or interrupted save_data
\* ---------------------------------------------------------------------------

NextRead ==
    \/ NextFirstRun
    \/ \E p \in WebPasswords : DbLoadData(p)
    \/ IsAuthenticatedCall
    \/ ListProducts
    \/ GetAllProducts
    \/ \E w \in BOOLEAN : ExportToCsv(w)

SpecRead == Init /\ [][NextRead]_vars

\* ---------------------------------------------------------------------------
\* two save_data calls at once on the one path (two request threads of the
\* web application, or two processes).  Each call has its own file object:
\* open(db_path, 'wb') truncates the file, the three f.write calls fill the
\* file object's buffer (a container of the size modelled is far below
\* io.DEFAULT_BUFFER_SIZE), and leaving the with block flushes the buffer to
\* the file at the object's own position 0.
\* ---------------------------------------------------------------------------

Writers == {1, 2}

\* os.write of blocks at position pos (counted in blocks) of a file f
WriteAt(f, pos, blocks) ==
    [i \in 1..(IF Len(f) > pos + Len(blocks) THEN Len(f) ELSE pos + Len(blocks)) |->
        IF i > pos /\ i <= pos + Len(blocks) THEN blocks[i - pos] ELSE f[i]]

\* the call of writer w has not started: its arguments
RaceCall(password, data) ==
    [at |-> "call", password |-> password, data |-> data, salt |-> NoBlock,
     iv |-> NoBlock, ciphertext |-> <<>>, buffer |-> <<>>]

InitRace ==
    /\ exists = FALSE
    /\ file = <<>>
    /\ rng = 0
    /\ current_password = None
    /\ pc = "idle"
    /\ pend = NoPend
    /\ ret = Ret("none", "", "", "", FALSE, None)
    /\ pre = [exists |-> FALSE, file |-> <<>>, current_password |-> None]
    /\ issued = <<>>
    /\ saved = None
    /\ session = NoSession
    /\ clock = 0
    /\ importing = NoImport
    /\ script = NoScript
    /\ race \in [Writers -> { RaceCall(p, d) : p \in Passwords, d \in SaveInputs }]

RaceUnchanged ==
    UNCHANGED <<current_password, pc, pend, ret, pre, saved, session, script,
                clock, importing>>

\* encryptor.encrypt(data), then open(self.db_path, 'wb')
RaceOpen(w) ==
    /\ race[w].at = "call"
    /\ rng + 2 <= 2 * MaxEncrypt
    /\ LET e == Encrypt(race[w].password, race[w].data, rng)
       IN  /\ ~e.raised
           /\ rng' = rng + 2
           /\ issued' = Append(issued, [salt |-> e.salt, iv |-> e.iv])
           /\ race' = [race EXCEPT ![w].at = "w_salt", ![w].salt = e.salt,
                                   ![w].iv = e.iv, ![w].ciphertext = e.ciphertext]
    /\ exists' = TRUE
    /\ file' = <<>>
    /\ RaceUnchanged

\* f.write(salt)
RaceWriteSalt(w) ==
    /\ race[w].at = "w_salt"
    /\ race' = [race EXCEPT ![w].at = "w_iv", ![w].buffer = <<race[w].salt>>]
    /\ UNCHANGED <<exists, file, rng, issued>>
    /\ RaceUnchanged

\* f.write(iv)
RaceWriteIv(w) ==
    /\ race[w].at = "w_iv"
    /\ race' = [race EXCEPT ![w].at = "w_ct",
                            ![w].buffer = Append(race[w].buffer, race[w].iv)]
    /\ UNCHANGED <<exists, file, rng, issued>>
    /\ RaceUnchanged

\* f.write(ciphertext)
RaceWriteCiphertext(w) ==
    /\ race[w].at = "w_ct"
    /\ race' = [race EXCEPT ![w].at = "close",
                            ![w].buffer = race[w].buffer \o race[w].ciphertext]
    /\ UNCHANGED <<exists, file, rng, issued>>
    /\ RaceUnchanged

\* the with block is left: the buffer is flushed and the file closed;
\* save_data returns True
RaceClose(w) ==
    /\ race[w].at = "close"
    /\ file' = WriteAt(file, 0, race[w].buffer)
    /\ race' = [race EXCEPT ![w].at = "done", ![w].buffer = <<>>]
    /\ UNCHANGED <<exists, rng, issued>>
    /\ RaceUnchanged

NextRace ==
    \/ \E w \in Writers : RaceOpen(w)
    \/ \E w \in Writers : RaceWriteSalt(w)
    \/ \E w \in Writers : RaceWriteIv(w)
    \/ \E w \in Writers : RaceWriteCiphertext(w)
    \/ \E w \in Writers : RaceClose(w)

SpecRace == InitRace /\ [][NextRace]_vars

\* ---------------------------------------------------------------------------
\* two add_password calls at once on the one container: two PasswordManager
\* sessions, or two request threads of the web application on its one
\* manager pm.  Each call reads the vault (_get_data), adds its record to its
\* own copy, and writes the copy (_save_data: is_authenticated, then
\* save_data, whose file operations are those of the racing saves above).
\* ---------------------------------------------------------------------------

\* the call add_password(product_name, ...) of session w has not started; the
\* session holds current_password = password
SessionCall(password, product_name, record) ==
    [at |-> "get", password |-> password, name |-> product_name,
     record |-> record, data |-> EmptyDict, salt |-> NoBlock, iv |-> NoBlock,
     ciphertext |-> <<>>, buffer |-> <<>>]

\* initialize_database(p) has written the container; both sessions have
\* authenticated with p; session 1 adds "Mail", session 2 adds "mail"
InitSessions ==
    \E p \in Passwords :
        LET e == Encrypt(p, EmptyDict, 0)
            f == <<e.salt, e.iv>> \o e.ciphertext
        IN  /\ exists = TRUE
            /\ file = f
            /\ rng = 2
            /\ current_password = Some(p)
            /\ pc = "idle"
            /\ pend = NoPend
            /\ ret = Ret("authenticate", p, "", "", TRUE, None)
            /\ pre = [exists |-> TRUE, file |-> f, current_password |-> None]
            /\ issued = <<[salt |-> e.salt, iv |-> e.iv]>>
            /\ saved = Some([password |-> p, data |-> EmptyDict])
            /\ session = NoSession
            /\ clock = 0
            /\ importing = NoImport
            /\ script = NoScript
            /\ race \in { [w \in Writers |->
                              SessionCall(p, IF w = 1 THEN "Mail" ELSE "mail", r[w])] :
                          r \in [Writers -> InputRecords] }

\* add_password up to its call of _save_data: data = self._get_data(), the
\* test for an existing product, data[product_name] = {...}
SessionGetData(w) ==
    /\ race[w].at = "get"
    /\ LET data == LoadData(exists, file, race[w].password)
       IN  race' = IF IsNone(data) \/ DictHas(Val(data), race[w].name)
                   THEN [race EXCEPT ![w].at = "failed"]
                   ELSE [race EXCEPT ![w].at = "check",
                                     ![w].data = DictSet(Val(data), race[w].name,
                                                         race[w].record)]
    /\ UNCHANGED <<exists, file, rng, issued>>
    /\ RaceUnchanged

\* _save_data: if not self.is_authenticated(): return False
SessionCheck(w) ==
    /\ race[w].at = "check"
    /\ race' = [race EXCEPT ![w].at =
                    IF IsNone(LoadData(exists, file, race[w].password))
                    THEN "failed" ELSE "call"]
    /\ UNCHANGED <<exists, file, rng, issued>>
    /\ RaceUnchanged

NextSessions ==
    \/ \E w \in Writers : SessionGetData(w)
    \/ \E w \in Writers : SessionCheck(w)
    \/ \E w \in Writers : RaceOpen(w)
    \/ \E w \in Writers : RaceWriteSalt(w)
    \/ \E w \in Writers : RaceWriteIv(w)
    \/ \E w \in Writers : RaceWriteCiphertext(w)
    \/ \E w \in Writers : RaceClose(w)

SpecSessions == InitSessions /\ [][NextSessions]_vars

\* ------------------------------------------------------------------ load_data
\* load_data and authenticate on a container file of any content

\* the dicts the container files hold: texts of 2 and of 96 bytes
LoadDicts == { EmptyDict, << <<"Mail", Rec("user@abc.com", "pw2", "", "", "")>> >> }

\* the last byte of a padding that encrypt did not make
PadBytes == {0, 1, 16, 17, 255}

\* a padding of encrypt's length for the text with another last byte b, the
\* bytes before it being encrypt's (fill = 0) or the byte fill
PadWith(text, b, fill) ==
    LET k == PaddingLength(TextLen(text))
    IN  [text |-> text,
         pad |-> [j \in 1..k |-> IF j = k THEN b ELSE IF fill = 0 THEN k ELSE fill]]

\* the padded plaintexts the container files hold
LoadPayloads ==
    { Pad(JsonDumps(d)) : d \in LoadDicts }
    \cup { PadWith(JsonDumps(d), b, 0) : d \in LoadDicts, b \in PadBytes }
    \cup { PadWith(JsonDumps(d), 1, 32) : d \in LoadDicts }
    \cup { PadWith(InvalidText(30), 2, 0) }

\* salt || iv || ciphertext of a padded plaintext under a password
Container(password, padded) ==
    LET salt == Urandom16(1)
        iv == Urandom16(2)
    IN  <<salt, iv>> \o CbcEncrypt(DeriveKey(password, salt), iv, padded)

\* the first nbytes bytes of a file
Truncate(f, nbytes) ==
    LET q == nbytes \div BlockSize
        r == nbytes % BlockSize
    IN  SubSeq(f, 1, q) \o (IF r > 0 THEN <<Part(f[q + 1], r)>> ELSE <<>>)

\* the lengths a file of n blocks is cut to: in and after the salt, the IV, the
\* first block of the ciphertext and its last block
Cuts(n) ==
    { c \in {0, 8, 16, 24, 32, 40, 48, 16 * n - 16, 16 * n - 8, 16 * n} :
        c >= 0 /\ c <= 16 * n }

\* a file with its first ciphertext block overwritten by other bytes
Overwrite(f) == [f EXCEPT ![3] = Urandom16(3)]

\* the contents of the container file
LoadContents ==
    LET whole == { Container(w, pl) : w \in Passwords, pl \in LoadPayloads }
    IN  UNION { { Truncate(f, c) : c \in Cuts(Len(f)) } : f \in whole }
        \cup { Overwrite(f) : f \in whole }

\* db.load_data(password) when the file cannot be opened or read
DbLoadDataUnreadable(password) ==
    /\ Call
    /\ LET data == LoadDataOutcome(exists, file, password, FALSE).val
       IN  Finish(Ret("load_data", password, "", "PermissionError",
                      ~IsNone(data), data))
    /\ UNCHANGED current_password

InitLoad ==
    /\ exists = TRUE
    /\ file \in LoadContents
    /\ rng = 0
    /\ current_password = None
    /\ pc = "idle"
    /\ pend = NoPend
    /\ ret = Ret("none", "", "", "", FALSE, None)
    /\ pre = [exists |-> TRUE, file |-> file, current_password |-> None]
    /\ issued = <<>>
    /\ saved = None
    /\ session = NoSession
    /\ clock = 0
    /\ importing = NoImport
    /\ script = NoScript
    /\ race = NoRace

NextLoad ==
    \/ \E p \in Passwords : DbLoadData(p)
    \/ \E p \in Passwords : DbLoadDataUnreadable(p)
    \/ \E p \in Passwords : Authenticate(p)

SpecLoad == InitLoad /\ [][NextLoad]_vars

\* ---------------------------------------------------------------------------
\* load_data over a container that save_data wrote and in which one bit of the
\* ciphertext was changed afterwards
\* ---------------------------------------------------------------------------

\* the vaults saved: their JSON texts are 2, 96 and 95 bytes long, so the
\* last block of the padded text is padding alone or holds the text's end
TamperDicts ==
    { EmptyDict,
      << <<"Mail", Rec("a@example.com", "p1", "", "", "")>> >>,
      << <<"Mail", Rec("user@abc.com", "p1", "", "", "")>> >> }

\* the last byte of the block a changed ciphertext block decrypts to
FlipBytes == {0, 1, 15, 16, 17, 32, 255}

\* the containers with the bit changed in ciphertext block j
TamperContents ==
    LET whole == { Container(w, Pad(JsonDumps(d))) :
                       w \in Passwords, d \in TamperDicts }
    IN  UNION { { [f EXCEPT ![j] = Flip(f[j], b)] :
                      j \in 3..Len(f), b \in FlipBytes } : f \in whole }

InitTamper ==
    /\ exists = TRUE
    /\ file \in TamperContents
    /\ rng = 0
    /\ current_password = None
    /\ pc = "idle"
    /\ pend = NoPend
    /\ ret = Ret("none", "", "", "", FALSE, None)
    /\ pre = [exists |-> TRUE, file |-> file, current_password |-> None]
    /\ issued = <<>>
    /\ saved = None
    /\ session = NoSession
    /\ clock = 0
    /\ importing = NoImport
    /\ script = NoScript
    /\ race = NoRace

NextTamper ==
    \/ \E p \in Passwords : DbLoadData(p)
    \/ \E p \in Passwords : Authenticate(p)
    \/ \E k \in Names : GetPassword(k)

SpecTamper == InitTamper /\ [][NextTamper]_vars

\* ---------------------------------------------------------------------------
\* load_data over whole containers that were not put together by encrypt: by
\* someone who knows the password (or by save_data called with a list)
\* ---------------------------------------------------------------------------

\* the padded texts: padded as encrypt pads; padded with spaces or tabs
\* before a last byte 1; and the text "[]" padded as encrypt pads
CraftPayloads ==
    { Pad(JsonDumps(d)) : d \in LoadDicts }
    \cup { PadWith(JsonDumps(d), 1, fill) : d \in LoadDicts, fill \in {9, 32} }
    \cup { Pad(ArrayText) }

InitCraft ==
    /\ exists = TRUE
    /\ file \in { Container(w, pl) : w \in Passwords, pl \in CraftPayloads }
    /\ rng = 0
    /\ current_password = None
    /\ pc = "idle"
    /\ pend = NoPend
    /\ ret = Ret("none", "", "", "", FALSE, None)
    /\ pre = [exists |-> TRUE, file |-> file, current_password |-> None]
    /\ issued = <<>>
    /\ saved = None
    /\ session = NoSession
    /\ clock = 0
    /\ importing = NoImport
    /\ script = NoScript
    /\ race = NoRace

NextCraft ==
    \/ \E p \in Passwords : DbLoadData(p)
    \/ \E p \in Passwords : Authenticate(p)
    \/ Crash

SpecCraft == InitCraft /\ [][NextCraft]_vars

\* ---------------------------------------------------------------------------
\* the padding of encrypt and its removal in decrypt, over byte strings of
\* every length up to MaxTextLen
\* ---------------------------------------------------------------------------

MaxTextLen == 40

\* a byte string of n bytes
Bytes(n) == [kind |-> "bytes", len |-> n]

InitPad ==
    /\ exists = FALSE
    /\ file = <<>>
    /\ rng = 0
    /\ current_password = None
    /\ pc = "idle"
    /\ pend = NoPend
    /\ \E n \in 0..MaxTextLen :
           ret = Ret("json_data", "", "", "", TRUE, Some(Bytes(n)))
    /\ pre = [exists |-> FALSE, file |-> <<>>, current_password |-> None]
    /\ issued = <<>>
    /\ saved = None
    /\ session = NoSession
    /\ clock = 0
    /\ importing = NoImport
    /\ script = NoScript
    /\ race = NoRace

PadUnchanged ==
    UNCHANGED <<exists, file, rng, current_password, pc, pend, pre, issued, saved,
                session, script, race, clock, importing>>

\* encrypt pads json_data
EncryptPad ==
    /\ ret.op = "json_data"
    /\ ret' = [ret EXCEPT !.op = "padded_data", !.val = Some(Pad(Val(ret.val)))]
    /\ PadUnchanged

\* decrypt removes the padding of the padded_plaintext it gets back
DecryptStrip ==
    /\ ret.op = "padded_data"
    /\ LET padded == Val(ret.val)
           have == PaddedLen(padded)
       IN  ret' = [ret EXCEPT !.op = "plaintext",
                              !.val = Some([padded |-> padded,
                                            len |-> Strip(have, LastByte(padded, have))])]
    /\ PadUnchanged

NextPad ==
    \/ EncryptPad
    \/ DecryptStrip

SpecPad == InitPad /\ [][NextPad]_vars

\* ------------------------------------------------------------------ claims

\* load_data(p) on the container as it is now, and as the last operation found it
Load(p) == LoadData(exists, file, p)

PreLoad(p) == LoadData(pre.exists, pre.file, p)

\* an Optional[dict] that is a dict equal to d
IsDict(o, d) == ~IsNone(o) /\ DictEq(Val(o), d)

\* the last operation was op and has returned
Returned(op) == pc = "idle" /\ ret.op = op

\* the last operation ran save_data, which returned True
JustSaved == pc = "idle" /\ ret.ok /\ pend.ret = ret

RotateOps == {"change_password", "change_master_password"}

\* C1: round trip.  Whenever save_data(P, R) has returned True and nothing has
\* written to the file since, load_data(P) returns a dict equal to R.
C1_RoundTrip ==
    ~IsNone(saved) => IsDict(Load(Val(saved).password), Val(saved).data)

\* C1 witness: load_data(P) has just returned after a save_data(P, R) with two
\* records in R.
C1_Witness ==
    /\ Returned("load_data")
    /\ ~IsNone(saved)
    /\ ret.pw = Val(saved).password
    /\ Len(Val(saved).data) = 2
    /\ ret.ok

C4_FailedRotationUntouched ==
    /\ (pc # "idle" /\ pend.ret.op \in RotateOps) =>
           ~IsNone(PreLoad(pend.ret.pw))
    /\ (pc = "idle" /\ ret.op \in RotateOps /\ pre.exists /\ IsNone(PreLoad(ret.pw))) =>
           /\ ~ret.ok
           /\ exists
           /\ file = pre.file
           /\ \A p \in Passwords : Load(p) = PreLoad(p)

\* C4 witness: change_password with the wrong old password has returned on a
\* container that the other password opens to a record.
C4_Witness ==
    /\ Returned("change_password")
    /\ pre.exists
    /\ IsNone(PreLoad(ret.pw))
    /\ \E p \in Passwords : ~IsNone(Load(p)) /\ Len(Val(Load(p))) > 0

\* the previous container was a valid one: some password opened it
PreValid == pre.exists /\ \E p \in Passwords : ~IsNone(PreLoad(p))

\* the container the interrupted save_data call was writing
NewContainer == <<pend.salt, pend.iv>> \o pend.ciphertext

\* C5: crash-atomic save.  If the process dies while an operation runs
\* save_data over an existing valid container, the file is afterwards the
\* complete previous container or the complete new one.
C5_CrashAtomicSave ==
    (ret.op = "crash" /\ ret.name # "idle" /\ PreValid) =>
        /\ exists
        /\ file = pre.file \/ file = NewContainer

\* C6: rotation is all-or-nothing.  If the process dies after
\* change_password(P1, P2) has loaded R from an existing container and before
\* its save_data has returned, load_data(P1) returns R or load_data(P2) returns R.
C6_RotationAllOrNothing ==
    (ret.op = "crash" /\ ret.name # "idle" /\ pend.ret.op \in RotateOps
        /\ pre.exists) =>
        \/ IsDict(Load(pend.ret.pw), Val(PreLoad(pend.ret.pw)))
        \/ IsDict(Load(pend.ret.new), Val(PreLoad(pend.ret.pw)))

\* C7: initialize_database on an existing file.  Whenever the file exists,
\* initialize_database(P) never reaches save_data; it returns True and leaves
\* the file, and so what load_data returns for every password, unchanged.
C7_InitializeIdempotent ==
    /\ (pc # "idle" /\ pend.ret.op = "initialize_database") => ~pre.exists
    /\ (Returned("initialize_database") /\ pre.exists) =>
           /\ ret.ok
           /\ exists
           /\ file = pre.file
           /\ \A p \in Passwords : Load(p) = PreLoad(p)

\* C7 witness: initialize_database(P) has returned on a container holding a
\* record under another password than P.
C7_Witness ==
    /\ Returned("initialize_database")
    /\ pre.exists
    /\ ~IsNone(saved)
    /\ Val(saved).password # ret.pw
    /\ Len(Val(saved).data) > 0

C9_LoadAbsentIsEmpty ==
    /\ ~exists => \A p \in Passwords : Load(p) = Some(EmptyDict)
    /\ (Returned("load_data") /\ ~pre.exists) =>
           /\ ret.ok
           /\ ret.val = Some(EmptyDict)
           /\ ~exists

\* C9 witness: load_data has returned having found no file.
C9_Witness ==
    Returned("load_data") /\ ~pre.exists /\ rng = 0

\* C10: fresh randomness.  Every encrypt call draws a new salt and a new IV:
\* no two encrypt calls so far used the same salt or the same IV, the
\* save_data call of the last operation wrote the newest pair, and a save_data
\* over an existing container leaves a file whose salt, IV and ciphertext all
\* differ from the previous ones.
C10_FreshRandomness ==
    /\ \A i \in DOMAIN issued : \A j \in DOMAIN issued :
           i # j => issued[i].salt # issued[j].salt /\ issued[i].iv # issued[j].iv
    /\ pend.ret.op # "none" =>
           /\ Len(issued) > 0
           /\ pend.salt = issued[Len(issued)].salt
           /\ pend.iv = issued[Len(issued)].iv
    /\ (JustSaved /\ pre.exists /\ Len(pre.file) > 2) =>
           /\ file = NewContainer
           /\ file[1] # pre.file[1]
           /\ file[2] # pre.file[2]
           /\ SubSeq(file, 3, Len(file)) # SubSeq(pre.file, 3, Len(pre.file))

\* C10 witness: the same dict has been saved under the same password twice
\* in a row.
C10_Witness ==
    /\ JustSaved
    /\ pre.exists
    /\ Len(pre.file) > 2
    /\ IsDict(PreLoad(Val(saved).password), Val(saved).data)
    /\ Len(Val(saved).data) > 0

\* the number of bytes of a file
FileBytes(f) ==
    IF Len(f) = 0 THEN 0 ELSE (Len(f) - 1) * BlockSize + BlockLen(f[Len(f)])

\* whether unpadding a padded plaintext leaves anything but its text followed
\* by JSON whitespace: the last byte b is 0, or larger than the padding, or
\* leaves padding bytes that are no whitespace
BadPadding(padded) ==
    LET n == Len(padded.pad)
        b == padded.pad[n]
    IN  \/ b = 0
        \/ b > n
        \/ \E j \in 1..(n - b) : padded.pad[j] \notin JsonWhitespace

\* why the container file, as its content was made, does not open with
\* password p ("none": nothing prevents it)
Cause(p) ==
    LET ct == SubSeq(file, 3, Len(file))
    IN  IF FileBytes(file) < 32 THEN "too short"
        ELSE IF FileBytes(file) % 16 # 0 THEN "ciphertext not a multiple of 16"
        ELSE IF Len(ct) = 0 THEN "no ciphertext"
        ELSE IF ct[1].t # "ct" THEN "overwritten"
        ELSE IF ct[1].key.pw # p THEN "wrong passphrase"
        ELSE IF Len(ct) * BlockSize < PaddedLen(ct[1].src) THEN "cut ciphertext"
        ELSE IF ct[1].src.text.kind # "object" THEN "invalid payload"
        ELSE IF BadPadding(ct[1].src) THEN "bad padding"
        ELSE "none"

C12_IOFailureDistinct ==
    (Returned("load_data") /\ ret.name = "PermissionError"
        /\ Cause(ret.pw) = "none") =>
        LET o == LoadDataOutcome(pre.exists, pre.file, ret.pw, FALSE)
        IN  /\ ret.val = o.val
            /\ o.raised \/ o.val # None

\* the last operation called save_data, and save_data has returned
SaveReturned == pc = "idle" /\ pend.ret.op # "none" /\ ret.op = pend.ret.op

\* C13: write failures are reported.  When the save_data call of an operation
\* has returned without having written its whole container (open() or a write
\* failed), save_data, and add_password, update_password, delete_password or
\* change_master_password that called it, return False, and
\* change_master_password keeps the session's password.
C13_WriteFailureReported ==
    (SaveReturned /\ file # NewContainer) =>
        /\ ~ret.ok
        /\ ret.op = "change_master_password" => current_password = Some(ret.pw)

\* C13 witness: change_master_password to another password has returned after
\* the write of the ciphertext failed.
C13_Witness ==
    /\ SaveReturned
    /\ ret.op = "change_master_password"
    /\ ret.new # ret.pw
    /\ Len(file) = 2
    /\ ~ret.ok

\* the session was authenticated when the last operation was called (an
\* operation other than authenticate and change_master_password leaves
\* current_password as it found it)
PreAuthenticated ==
    ~IsNone(current_password) /\ ~IsNone(PreLoad(Val(current_password)))

\* the record map the last operation of an authenticated session found, and
\* the one the container holds now
PreData == Val(PreLoad(Val(current_password)))

CurData == Val(Load(Val(current_password)))

\* what get_password(k) and list_products() return now
Get(k) ==
    LET data == GetData
    IN  IF ~IsNone(data) /\ DictHas(Val(data), k) THEN Some(DictGet(Val(data), k))
        ELSE None

List ==
    LET data == GetData
    IN  IF IsNone(data) THEN <<>> ELSE SortedKeys(Val(data))

\* every key of d but k has in e the record it has in d
OthersKept(d, e, k) ==
    \A j \in DictKeys(d) \ {k} : DictHas(e, j) /\ DictGet(e, j) = DictGet(d, j)

\* C14: a duplicate add is rejected without effect.  add_password(k, ...) in an
\* authenticated session whose record map holds exactly the key k never
\* reaches save_data; it returns False and leaves the file's bytes and the
\* record map, the record of k included, as they were.  A key that differs
\* from k in case only is no duplicate.
C14_DuplicateAddRejected ==
    /\ (pc # "idle" /\ pend.ret.op = "add_password") =>
           ~DictHas(PreData, pend.ret.name)
    /\ (Returned("add_password") /\ PreAuthenticated
            /\ DictHas(PreData, ret.name)) =>
           /\ ~ret.ok
           /\ exists = pre.exists
           /\ file = pre.file
           /\ Load(Val(current_password)) = PreLoad(Val(current_password))
           /\ Get(ret.name) = Some(DictGet(PreData, ret.name))
    /\ (Returned("add_password") /\ PreAuthenticated /\ ~ret.ok /\ pend = NoPend) =>
           DictHas(PreData, ret.name)

\* C14 witness: add_password(k, ...) with another record than the stored one
\* has returned in a session whose map holds k.
C14_Witness ==
    /\ Returned("add_password")
    /\ PreAuthenticated
    /\ DictHas(PreData, ret.name)
    /\ DictGet(PreData, ret.name) # Val(ret.val)

\* C15: add stores exactly the given record.  When add_password(k, account,
\* password, email, phone, remark) has returned True, k was not in the record
\* map, get_password(k) returns a record with exactly those five values, the
\* map's keys are the previous ones and k, and every other key has the record
\* it had.
C15_AddStoresRecord ==
    (Returned("add_password") /\ ret.ok) =>
        /\ PreAuthenticated
        /\ ~DictHas(PreData, ret.name)
        /\ Get(ret.name) = ret.val
        /\ DictKeys(CurData) = DictKeys(PreData) \cup {ret.name}
        /\ OthersKept(PreData, CurData, ret.name)

\* C15 witness: add_password has returned True for a record with all five
\* fields set, in a map that held another key.
C15_Witness ==
    /\ Returned("add_password")
    /\ ret.ok
    /\ Val(ret.val).remark # ""
    /\ Len(PreData) = 1

\* C16: update is a partial field merge.  When update_password(k, fields) has
\* returned True, k was in the record map, every supplied field of k's record
\* has the supplied value, every omitted field has the value it had, the
\* map's keys are the previous ones and every other key has the record it had.
C16_UpdateMerges ==
    (Returned("update_password") /\ ret.ok) =>
        /\ PreAuthenticated
        /\ DictHas(PreData, ret.name)
        /\ DictHas(CurData, ret.name)
        /\ LET args == Val(ret.val)
               old == DictGet(PreData, ret.name)
               new == DictGet(CurData, ret.name)
           IN  \A f \in DOMAIN args :
                   /\ ~IsNone(args[f]) => new[f] = Val(args[f])
                   /\ IsNone(args[f]) => new[f] = old[f]
        /\ DictKeys(CurData) = DictKeys(PreData)
        /\ OthersKept(PreData, CurData, ret.name)

\* C16 witness: update_password has returned True in a map of two keys, for
\* a record with an omitted field that was not empty and a supplied field
\* whose value changed.
C16_Witness ==
    /\ Returned("update_password")
    /\ ret.ok
    /\ Len(PreData) = 2
    /\ \E f \in DOMAIN Val(ret.val) :
           IsNone(Val(ret.val)[f]) /\ DictGet(PreData, ret.name)[f] # ""
    /\ \E f \in DOMAIN Val(ret.val) :
           /\ ~IsNone(Val(ret.val)[f])
           /\ DictGet(PreData, ret.name)[f] # Val(Val(ret.val)[f])

\* C17: delete removes exactly one record.  When delete_password(k) has
\* returned True, k was in the record map, get_password(k) returns None,
\* list_products() does not contain k, the map's keys are the previous ones
\* without k and every other key has the record it had.
C17_DeleteRemovesOne ==
    (Returned("delete_password") /\ ret.ok) =>
        /\ PreAuthenticated
        /\ DictHas(PreData, ret.name)
        /\ Get(ret.name) = None
        /\ \A i \in DOMAIN List : List[i] # ret.name
        /\ DictKeys(CurData) = DictKeys(PreData) \ {ret.name}
        /\ OthersKept(PreData, CurData, ret.name)

\* C17 witness: delete_password has returned True for the first of the two
\* keys of the map.
C17_Witness ==
    /\ Returned("delete_password")
    /\ ret.ok
    /\ Len(PreData) = 2
    /\ PreData[1][1] = ret.name

\* C18: a missing key is a normal failure.  update_password(k, ...) and
\* delete_password(k) in an authenticated session whose record map does not
\* hold k never reach save_data; they return False and leave the file's bytes
\* and the record map as they were.
C18_MissingKeyFails ==
    /\ (pc # "idle" /\ pend.ret.op \in {"update_password", "delete_password"}) =>
           DictHas(PreData, pend.ret.name)
    /\ (pc = "idle" /\ ret.op \in {"update_password", "delete_password"}
            /\ PreAuthenticated /\ ~DictHas(PreData, ret.name)) =>
           /\ ~ret.ok
           /\ pend = NoPend
           /\ exists = pre.exists
           /\ file = pre.file
           /\ Load(Val(current_password)) = PreLoad(Val(current_password))

\* C18 witness: delete_password(k) has returned in a session whose map holds
\* a key that differs from k in case only.
C18_Witness ==
    /\ Returned("delete_password")
    /\ PreAuthenticated
    /\ ~DictHas(PreData, ret.name)
    /\ Len(PreData) = 1

\* the code points of a product name
CodePoints(name) ==
    IF name = "Mail" THEN <<77, 97, 105, 108>> ELSE <<109, 97, 105, 108>>

\* a < b for two sequences of code points, lexicographically
LexLess(a, b) ==
    \E i \in 1..(Len(a) + 1) :
        /\ i <= Len(b)
        /\ \A j \in 1..(i - 1) : a[j] = b[j]
        /\ i = Len(a) + 1 \/ a[i] < b[i]

\* C19: list is the sorted key set.  In an authenticated session
\* list_products() returns exactly the keys of the record map the container
\* holds, each once, in ascending order of their code points; a
\* list_products() call returns that list.
C19_ListSorted ==
    /\ IsAuthenticated =>
           /\ { List[i] : i \in DOMAIN List } = DictKeys(CurData)
           /\ Len(List) = Cardinality(DictKeys(CurData))
           /\ \A i \in DOMAIN List : \A j \in DOMAIN List :
                  i < j => LexLess(CodePoints(List[i]), CodePoints(List[j]))
    /\ (Returned("list_products") /\ ret.ok) =>
           /\ IsAuthenticated
           /\ ret.val = List

\* C19 witness: list_products() has returned two keys of a map that holds
\* them in the other order.
C19_Witness ==
    /\ Returned("list_products")
    /\ ret.ok
    /\ Len(ret.val) = 2
    /\ CurData[1][1] = ret.val[2]

\* the record map the last successful add_password, update_password or
\* delete_password call leaves, from the map it found and its arguments
Mutated ==
    IF ret.op = "add_password" THEN DictSet(PreData, ret.name, Val(ret.val))
    ELSE IF ret.op = "update_password"
    THEN DictSet(PreData, ret.name, Merge(DictGet(PreData, ret.name), Val(ret.val)))
    ELSE DictDel(PreData, ret.name)

\* C20: immediate persistence.  Whenever add_password, update_password or
\* delete_password has returned True, the file is the complete container its
\* save_data call encrypted under the session's current password, and
\* load_data with that password on the file returns the mutated record map.
C20_ImmediatePersistence ==
    (pc = "idle" /\ ret.ok
        /\ ret.op \in {"add_password", "update_password", "delete_password"}) =>
        /\ exists
        /\ file = NewContainer
        /\ file # pre.file
        /\ pend.password = Val(current_password)
        /\ IsDict(LoadData(exists, file, Val(current_password)), Mutated)

\* C20 witness: update_password has returned True.
C20_Witness ==
    /\ Returned("update_password")
    /\ ret.ok
    /\ ~DictEq(Mutated, PreData)

\* the passwords that open a container
Openers(ex, f) == { p \in Passwords : ~IsNone(LoadData(ex, f, p)) }

\* the operation that made the file what it is from what pre holds: the last
\* one called, or after a crash the last one that called save_data
LastOp == IF pc = "idle" /\ ret.op # "crash" THEN ret.op ELSE pend.ret.op

\* the operations of the collaborator interface other than the rotation
NonRotatingOps ==
    {"initialize_database", "authenticate", "add_password", "get_password",
     "update_password", "delete_password", "list_products", "export_to_csv"}

BlockKind(b) == IF b.t = "part" THEN b.of.t ELSE b.t

\* C22: the passphrase is never persisted.  In every reachable state of the
\* web application the session cookie holds no master password, and the
\* container file holds nothing but salt, IV and ciphertext blocks.
C22_PassphraseNeverPersisted ==
    /\ IsNone(session.master_password)
    /\ \A i \in 1..Len(file) : BlockKind(file[i]) \in {"rnd", "ct"}

\* line n of the scenario has returned
LineDone(n) == pc = "idle" /\ script.at = n + 1

\* the vault that holds the scenario's one record
ScriptVault == DictSet(EmptyDict, script.name, Val(script.rec))

RaceOutput(w) == <<race[w].salt, race[w].iv>> \o race[w].ciphertext

\* C24: no torn file under racing saves.  When both of two save_data calls on
\* the one path have returned, the file is exactly the complete output of one
\* of the two, never a mixture or a truncation.
C24_NoTornFile ==
    (\A w \in Writers : race[w].at = "done") =>
        \E w \in Writers : file = RaceOutput(w)

\* the ciphertext part of a container file, as load_data reads it
Ciphertext(f) == SubSeq(f, 3, Len(f))

\* C25: container layout.  Every container that save_data has written is a
\* 16-byte salt, then a 16-byte IV, both as os.urandom issued them to one
\* encrypt call, then a ciphertext of one or more whole blocks, as many as the
\* padded text has; so it is at least 48 bytes long and a multiple of 16, and
\* load_data decrypts exactly these three parts.
C25_ContainerLayout ==
    ~IsNone(saved) =>
        /\ Len(file) >= 3
        /\ \E k \in 1..Len(issued) :
               file[1] = issued[k].salt /\ file[2] = issued[k].iv
        /\ \A i \in 1..Len(file) : BlockLen(file[i]) = BlockSize
        /\ \A i \in 1..Len(Ciphertext(file)) :
               /\ Ciphertext(file)[i].t = "ct"
               /\ Ciphertext(file)[i].i = i
               /\ Ciphertext(file)[i].iv = file[2]
               /\ Len(Ciphertext(file)) * BlockSize = PaddedLen(Ciphertext(file)[i].src)
        /\ FileBytes(file) >= 48
        /\ FileBytes(file) % 16 = 0
        /\ \A p \in Passwords :
               Load(p) = Decrypt(p, file[1], file[2], Ciphertext(file))
        /\ IsDict(Decrypt(Val(saved).password, file[1], file[2], Ciphertext(file)),
                  Val(saved).data)

C25_Witness ==
    /\ ~IsNone(saved)
    /\ pc = "idle"
    /\ FileBytes(file) > 48
    /\ Len(Val(saved).data) = 2

\* the passphrase a stored ciphertext block was encrypted under
KeyOf(b) == IF b.t = "flip" THEN b.of.key.pw ELSE b.key.pw

\* C26: tamper detection.  For a container that save_data(P, R) wrote and in
\* whose ciphertext one bit was changed, load_data(P) returns None.
C26_TamperDetected ==
    (Returned("load_data") /\ ret.pw = KeyOf(file[3])) =>
        ~ret.ok /\ IsNone(ret.val)

\* C27: padding arithmetic.  For a text of n bytes encrypt appends
\* 16 - (n mod 16) bytes, each of that value, between 1 and 16 of them and a
\* whole block when n is a multiple of 16; decrypt, removing as many bytes as
\* the last byte says, is left with exactly the n bytes of the text.
C27_PaddingArithmetic ==
    /\ ret.op = "padded_data" =>
           LET padded == Val(ret.val)
               n == padded.text.len
               padding_length == Len(padded.pad)
           IN  /\ padding_length = 16 - (n % 16)
               /\ \A j \in 1..padding_length : padded.pad[j] = padding_length
               /\ padding_length >= 1
               /\ padding_length <= 16
               /\ n % 16 = 0 => padding_length = 16
               /\ (n + padding_length) % 16 = 0
    /\ ret.op = "plaintext" =>
           Val(ret.val).len = Val(ret.val).padded.text.len

C27_Witness ==
    /\ ret.op = "plaintext"
    /\ Val(ret.val).len = 32
    /\ Len(Val(ret.val).padded.pad) = 16

\* the padded text a whole container holds
Payload == file[3].src

\* C28: structural validation of decrypted data.  Whenever load_data, and so
\* authenticate, reports success on an existing container, the decrypted text
\* is a record map and its padding is the one encrypt appends: a text that
\* parses to something else, or padding bytes that are inconsistent, count as a
\* failure.
C28_StructuralValidation ==
    ((Returned("load_data") \/ Returned("authenticate")) /\ ret.ok) =>
        /\ Payload.text.kind = "object"
        /\ Payload.pad = Pad(Payload.text).pad

\* the manager was not authenticated when the last operation was called: no
\* session password, or one that did not open the container
PreUnauthenticated ==
    \/ IsNone(pre.current_password)
    \/ IsNone(LoadData(pre.exists, pre.file, Val(pre.current_password)))

WriteOps ==
    {"add_password", "update_password", "delete_password", "change_master_password"}

\* C29: unauthenticated sessions cannot read or write.  Called on a manager
\* whose current_password is unset or does not open the container,
\* add_password, update_password, delete_password and change_master_password
\* return False without reaching save_data, get_password returns None,
\* export_to_csv returns False and writes no data, list_products returns [],
\* and the container is left as it was.
C29_UnauthenticatedNoAccess ==
    /\ (pc # "idle" /\ pend.ret.op \in WriteOps) => ~PreUnauthenticated
    /\ (pc = "idle" /\ ret.op \in WriteOps /\ PreUnauthenticated) =>
           /\ ~ret.ok
           /\ pend = NoPend
           /\ exists = pre.exists
           /\ file = pre.file
           /\ current_password = pre.current_password
    /\ (Returned("get_password") /\ PreUnauthenticated) =>
           /\ IsNone(ret.val)
           /\ ~ret.ok
           /\ exists = pre.exists
           /\ file = pre.file
    /\ (Returned("export_to_csv") /\ PreUnauthenticated) =>
           /\ IsNone(ret.val)
           /\ ~ret.ok
           /\ exists = pre.exists
           /\ file = pre.file
    /\ (Returned("list_products") /\ PreUnauthenticated) =>
           /\ ret.val = <<>>
           /\ exists = pre.exists
           /\ file = pre.file

C29_Witness ==
    /\ Returned("change_master_password")
    /\ PreUnauthenticated
    /\ ~IsNone(pre.current_password)
    /\ pre.exists
    /\ ~ret.ok

\* C30: authenticate(P) returns True exactly when load_data(P) does not return
\* None, and only then sets current_password to P; a failed authenticate
\* leaves current_password as it was, set or unset, and neither touches the
\* container.
C30_AuthenticateIffLoad ==
    Returned("authenticate") =>
        /\ ret.ok = ~IsNone(PreLoad(ret.pw))
        /\ ret.ok = ~IsNone(Load(ret.pw))
        /\ ret.ok => current_password = Some(ret.pw)
        /\ ~ret.ok => current_password = pre.current_password
        /\ exists = pre.exists
        /\ file = pre.file

C30_Witness ==
    /\ Returned("authenticate")
    /\ ~ret.ok
    /\ pre.exists
    /\ ~PreUnauthenticated
    /\ current_password = pre.current_password
    /\ current_password # Some(ret.pw)

\* C31: the session follows the rotation.  When change_master_password(new)
\* has returned True, current_password is new and the session is still
\* authenticated: is_authenticated() holds and _get_data() returns the vault as
\* it was, so the next CRUD call needs no authenticate.  When it has returned
\* False, current_password is what it was.
C31_SessionFollowsRotation ==
    Returned("change_master_password") =>
        /\ ret.ok =>
               /\ current_password = Some(ret.new)
               /\ IsAuthenticated
               /\ IsDict(GetData, Val(PreLoad(ret.pw)))
               /\ \A k \in Names :
                      Get(k) = (IF DictHas(Val(PreLoad(ret.pw)), k)
                                THEN Some(DictGet(Val(PreLoad(ret.pw)), k)) ELSE None)
        /\ ~ret.ok => current_password = pre.current_password

C31_Witness ==
    /\ Returned("change_master_password")
    /\ ret.ok
    /\ ret.pw # ret.new
    /\ current_password = Some(ret.new)
    /\ ~IsNone(Get("Mail"))

C33_NoLostUpdate ==
    (\A w \in Writers : race[w].at = "done") =>
        LET data == Load(race[1].password)
        IN  /\ ~IsNone(data)
            /\ \A w \in Writers :
                   /\ DictHas(Val(data), race[w].name)
                   /\ DictGet(Val(data), race[w].name) = race[w].record

\* the operations that change the record map
MutationOps == {"add_password", "update_password", "delete_password"}

ReadOps ==
    {"load_data", "authenticate", "is_authenticated", "get_password",
     "list_products", "get_all_products", "export_to_csv"}

\* C35: read-only operations have no effect on the vault.  When load_data,
\* authenticate, is_authenticated, get_password, list_products,
\* get_all_products or export_to_csv has returned, with success or failure,
\* the container file is absent if it was absent and holds the same bytes if
\* it existed, and no save_data has been started.
C35_ReadOnlyNoEffect ==
    (pc = "idle" /\ ret.op \in ReadOps) =>
        /\ exists = pre.exists
        /\ file = pre.file
        /\ pend = NoPend

\* C35 witness: export_to_csv has written the rows of a vault with a record,
\* the container as it was
C35_Witness ==
    /\ Returned("export_to_csv")
    /\ ret.ok
    /\ DictHas(Val(ret.val), "Mail")
    /\ exists
    /\ file = pre.file

\* the web session is marked authenticated and at most SESSION_TIMEOUT
\* seconds have passed since its last recorded activity
Live ==
    /\ session.authenticated
    /\ ~IsNone(session.login_time)
    /\ clock - Val(session.login_time) <= SESSION_TIMEOUT

\* C36: web session gate and timeout.  A request for a handler behind
\* login_required runs the handler exactly when the session is marked
\* authenticated and at most 60 seconds have passed since the login or the
\* last served protected request, and that request becomes the session's last
\* activity; otherwise the request is redirected without running the handler,
\* a timed out session is cleared, and a session that is not authenticated
\* becomes authenticated only by a successful login.
C36_WebSessionGate ==
    [][/\ WebDashboard =>
              IF Live
              THEN /\ ret'.op = "dashboard"
                   /\ session' = [session EXCEPT !.login_time = Some(clock)]
              ELSE /\ ret'.op \in {"redirect", "timeout"}
                   /\ ~ret'.ok
                   /\ IsNone(ret'.val)
                   /\ ~session'.authenticated
                   /\ session.authenticated => session' = NoSession
       /\ (~session.authenticated /\ session'.authenticated) =>
              /\ ret'.op = "login"
              /\ ret'.ok
              /\ session'.login_time = Some(clock)
      ]_vars

\* C36 witness: a dashboard request more than 60 seconds after the login has
\* been redirected and the session cleared
C36_Witness ==
    /\ Returned("timeout")
    /\ ret.name = "/dashboard"
    /\ session = NoSession
    /\ ~IsNone(current_password)
    /\ clock > SESSION_TIMEOUT

\* the rows the running import has counted
RowsCounted(imp) == imp.success_count + imp.skip_count + imp.error_count

\* the product name of the row the import is at is in the vault as the row
\* finds it
RowExists ==
    \E p \in WebPasswords :
        LET data == LoadData(pre'.exists, pre'.file, p)
        IN  /\ ~IsNone(data)
            /\ DictHas(Val(data), StripText(importing.rows[importing.at].product_name))

\* the row the import is at has a product name, an account and a password
RowValid ==
    LET row == importing.rows[importing.at]
    IN  /\ StripText(row.product_name) # ""
        /\ StripText(row.account) # ""
        /\ row.password # ""

\* while an import runs, the rows before the one it is at have each been
\* counted once, and so has every row when the import ends
RowsCountedOnce ==
    /\ importing.at > 0 => RowsCounted(importing) = importing.at - 1
    /\ (Returned("import") /\ ret.ok) =>
           RowsCounted(Val(ret.val)) = Val(ret.val).at

\* the step that counts a row: one counter grows by one; a row whose product
\* name exists (and, with valid_only, that has its required fields) is
\* skipped and the container file is as the row found it; an imported row
\* adds its record under a name the vault did not have and changes no other
RowCounted(valid_only) ==
    (importing.at > 0 /\ importing'.at = importing.at + 1) =>
        /\ RowsCounted(importing') = RowsCounted(importing) + 1
        /\ importing'.rows = importing.rows
        /\ RowExists =>
               /\ (RowValid \/ ~valid_only) =>
                      importing'.skip_count = importing.skip_count + 1
               /\ importing'.success_count = importing.success_count
               /\ pc = "idle"
               /\ exists' = pre'.exists
               /\ file' = pre'.file
        /\ importing'.success_count # importing.success_count =>
               LET row == importing.rows[importing.at]
                   before == LoadData(pre'.exists, pre'.file, Val(current_password))
               IN  /\ ~IsNone(before)
                   /\ ~DictHas(Val(before), StripText(row.product_name))
                   /\ IsDict(LoadData(exists', file', Val(current_password)),
                             DictSet(Val(before), StripText(row.product_name),
                                     RowRecord(row)))

====
